---- MODULE Spec2Model ----
(***************************************************************************)
(* Link-cut tree of src/src/lib.rs (trait LinkCutTree over                 *)
(* Rc<RefCell<LCTNode>>).                                                  *)
(*                                                                         *)
(* Every node is an LCTNode {parent, children[2], len}.  A caller keeps an *)
(* RcNode handle to each of the NumNodes nodes it created with new(), so   *)
(* no node is deallocated when a children slot is cleared and every        *)
(* Weak::upgrade of a set parent succeeds.  Execution is single-threaded:  *)
(* each action below is one complete call of a trait method.  The RefCell  *)
(* borrows of one statement are of different nodes as long as no node is   *)
(* its own parent or child, which holds in every state explored here, so   *)
(* the only panics are those of unwrap.                                    *)
(***************************************************************************)
EXTENDS Integers, FiniteSets, Sequences, TLC

\* Number of nodes the caller created with new().
NumNodes == 3

Nodes == 1 .. NumNodes

\* Option::None of a node reference (parent: None, children: [None, None]).
None == 0

Slots == {0, 1}

VARIABLES
    parent,     \* LCTNode.parent of every node (None or a node)
    children,   \* LCTNode.children of every node: slot 0 and slot 1
    len,        \* LCTNode.len of every node (the aggregate)
    status,     \* "ok", or "panicked" once a call has panicked (unwrap on None)
    rots,       \* number of times the last call entered the body of rotate
    ref,        \* the caller's reference forest: ref[a] = b after link(a, b)
    last,       \* the last call: its name, its receiver, its argument
    pre         \* fields and reference forest as they were before the last call

vars == <<parent, children, len, status, rots, ref, last, pre>>

\* The fields of all nodes as one value; the methods below map such a value
\* to the value after the call.  n counts the rotations performed, panic
\* tells that the call panicked (the statements after the panic do not run).
Cur == [parent |-> parent, children |-> children, len |-> len,
        n |-> 0, panic |-> FALSE]

Fields(s) == [parent |-> s.parent, children |-> s.children, len |-> s.len]

Panic(s) == [s EXCEPT !.panic = TRUE]

----------------------------------------------------------------------------
\* fn dir: the slot at which the parent stores self, as the set {} (None)
\* or {d} (Some(d)).
dir(s, v) ==
    LET p == s.parent[v] IN
    IF p = None THEN {}
    ELSE IF s.children[p][0] = v THEN {0}
    ELSE IF s.children[p][1] = v THEN {1}
    ELSE {}

is_path_root(s, v) == dir(s, v) = {}

path_parent(s, v) == IF dir(s, v) = {} THEN None ELSE s.parent[v]

ChildLen(s, c) == IF c = None THEN 0 ELSE s.len[c]

\* fn update: len := 1 + len of the children that are present.
update(s, v) ==
    [s EXCEPT !.len[v] = 1 + ChildLen(s, s.children[v][0])
                           + ChildLen(s, s.children[v][1])]

\* The only element of a set dir returned as Some(d).
Slot(ds) == CHOOSE d \in ds : TRUE

\* A rotate that copies parent.parent instead of replacing it with self.
rotate_reparent_copy(s, v, P) ==
    update(update([s EXCEPT !.parent[v] = s.parent[P], !.n = @ + 1], P), v)

\* rotate, last statements: self.parent := parent.parent.replace(self),
\* parent.update(), self.update().  Nothing stores the parent in a slot of
\* self.
rotate_reparent(s, v, P) ==
    update(update([s EXCEPT !.parent[v] = s.parent[P], !.parent[P] = v,
                            !.n = @ + 1], P), v)

\* rotate, the if-let over parent.dir(): the ancestor's slot that held the
\* parent now holds self; parent.parent().unwrap() panics on None.
rotate_ancestor(s, v, P) ==
    IF dir(s, P) = {} THEN rotate_reparent(s, v, P)
    ELSE IF s.parent[P] = None THEN Panic(s)
    ELSE rotate_reparent(
             [s EXCEPT !.children[s.parent[P]][Slot(dir(s, P))] = v], v, P)

\* A rotate that leaves out *parent.child_mut(dir) = child.clone(): slot dir
\* of the parent keeps self.
rotate_child_kept(s, v, d, P, c) ==
    rotate_ancestor(IF c # None THEN [s EXCEPT !.parent[c] = P] ELSE s, v, P)

\* rotate, after the two takes: the child c taken from slot 1 ^ dir of self
\* gets the parent P and goes into slot dir of P.
rotate_child(s, v, d, P, c) ==
    rotate_ancestor(
        IF c # None THEN [s EXCEPT !.parent[c] = P, !.children[P][d] = c]
        ELSE [s EXCEPT !.children[P][d] = c],
        v, P)

\* A rotate that, at its end, stores the old parent P in slot 1 ^ dir of
\* self and updates self again.
rotate_store_parent(s, v, d, P) ==
    IF s.panic THEN s ELSE update([s EXCEPT !.children[v][1 - d] = P], v)

rotate_some_stored(s, v, d) ==
    IF s.parent[v] = None THEN Panic(s)
    ELSE rotate_store_parent(
             rotate_child(
                 [s EXCEPT !.parent[v] = None, !.children[v][1 - d] = None],
                 v, d, s.parent[v], s.children[v][1 - d]),
             v, d, s.parent[v])

\* rotate with dir() = Some(d): parent_mut().take().unwrap() panics on None
\* (the upgrade succeeds, the caller holds every node);
\* child_mut(1 ^ dir).take() empties the slot.
rotate_some(s, v, d) ==
    IF s.parent[v] = None THEN Panic(s)
    ELSE rotate_child(
             [s EXCEPT !.parent[v] = None, !.children[v][1 - d] = None],
             v, d, s.parent[v], s.children[v][1 - d])

\* A rotate that tests self.parent() and unwraps self.dir().
rotate_unguarded(s, v) ==
    IF s.parent[v] = None THEN s
    ELSE IF dir(s, v) = {} THEN Panic(s)
    ELSE rotate_some(s, v, Slot(dir(s, v)))

\* fn rotate.
rotate(s, v) ==
    IF dir(s, v) = {} THEN s ELSE rotate_some(s, v, Slot(dir(s, v)))

\* The last statement of the body of splay's loop: self.rotate().
splay_rotate_self(s, v) == IF s.panic THEN s ELSE rotate(s, v)

\* The body of splay's loop, with parent = path_parent(): one iteration.
splay_step(s, v) ==
    splay_rotate_self(
        IF is_path_root(s, path_parent(s, v)) THEN s
        ELSE IF dir(s, v) = dir(s, path_parent(s, v))
             THEN rotate(s, path_parent(s, v))
        ELSE rotate(s, v),
        v)

\* splay's while-let loop, one iteration per unfolding.
RECURSIVE splay_while(_, _)
splay_while(s, v) ==
    IF s.panic \/ path_parent(s, v) = None THEN s
    ELSE splay_while(splay_step(s, v), v)

\* self goes into slot 1 of p, and p.update().
attach(s, p, v) ==
    IF s.panic THEN s ELSE update([s EXCEPT !.children[p][1] = v], p)

\* A splay that, once self is a path root, stores self in slot 1 of its
\* parent: it crosses the light edge.
splay_crossing_at(s, v) ==
    IF s.panic \/ s.parent[v] = None THEN s ELSE attach(s, s.parent[v], v)

splay_crossing(s, v) == splay_crossing_at(splay_while(s, v), v)

\* fn splay.
splay(s, v) == splay_while(s, v)

\* An expose that leaves out self.child_mut(1).take().
expose_take_kept(s, v) == IF s.panic THEN s ELSE update(s, v)

\* expose, after self.splay(): self.child_mut(1).take(); self.update().
expose_take(s, v) ==
    IF s.panic THEN s ELSE update([s EXCEPT !.children[v][1] = None], v)

\* An expose that runs the body of its loop once.
expose_once_up(s, v) ==
    IF s.panic \/ s.parent[v] = None THEN s
    ELSE attach(splay(s, s.parent[v]), s.parent[v], v)

expose_once(s, v) == expose_once_up(expose_take(splay(s, v), v), v)

\* fn expose: the loop, one iteration per unfolding.  After the take and
\* the update: with a parent, parent.splay(), self into the parent's slot 1,
\* parent.update(), and again; without one, break.
RECURSIVE expose(_, _)
expose_up(s, v) ==
    IF s.panic \/ s.parent[v] = None THEN s
    ELSE expose(attach(splay(s, s.parent[v]), s.parent[v], v), v)

expose(s, v) ==
    IF s.panic THEN s ELSE expose_up(expose_take(splay(s, v), v), v)

\* A link that writes self.weak() where new_parent.weak() belongs.
link_self_parent(s, a, b) ==
    IF s.panic THEN s
    ELSE [s EXCEPT !.parent[a] = a, !.children[b][1] = a]

\* link's two stores: self.parent := new_parent, new_parent's slot 1 := self.
link_store(s, a, b) ==
    IF s.panic THEN s
    ELSE [s EXCEPT !.parent[a] = b, !.children[b][1] = a]

\* A link that leaves out self.expose().
link_unexposed(s, a, b) == link_store(expose(s, b), a, b)

\* A link that leaves out new_parent.child_mut(1).replace(self.rc()).
link_unlisted_store(s, a, b) ==
    IF s.panic THEN s ELSE [s EXCEPT !.parent[a] = b]

link_unlisted(s, a, b) == link_unlisted_store(expose(expose(s, a), b), a, b)

\* fn link.
link(s, a, b) == link_store(expose(expose(s, a), b), a, b)

\* fn cut on the fields s: child_mut(0).take() empties slot 0, unwrap()
\* panics when it was empty, and otherwise the parent of the node taken is
\* cleared.
cut_take(s, v) ==
    IF s.panic THEN s
    ELSE IF s.children[v][0] = None THEN Panic(s)
    ELSE [s EXCEPT !.parent[s.children[v][0]] = None,
                   !.children[v][0] = None]

\* A cut that starts with self.expose().
cut_exposed(s, v) == cut_take(expose(s, v), v)

\* fn cut.
cut(s, v) == cut_take(s, v)

----------------------------------------------------------------------------
\* The caller's reference forest.
RECURSIVE RefRoot(_, _)
RefRoot(r, v) == IF r[v] = None THEN v ELSE RefRoot(r, r[v])

\* The fresh nodes: fn new gives parent None, children [None, None], len 1.
Init ==
    /\ parent = [v \in Nodes |-> None]
    /\ children = [v \in Nodes |-> [d \in Slots |-> None]]
    /\ len = [v \in Nodes |-> 1]
    /\ status = "ok"
    /\ rots = 0
    /\ ref = [v \in Nodes |-> None]
    /\ last = [op |-> "new", node |-> None, other |-> None, repeat |-> FALSE]
    /\ pre = [parent |-> [v \in Nodes |-> None],
              children |-> [v \in Nodes |-> [d \in Slots |-> None]],
              len |-> [v \in Nodes |-> 1],
              ref |-> [v \in Nodes |-> None],
              rots |-> 0]

\* A call op(v, w) that took the fields to s; it panicked, or returned and
\* left the program in the status ok.
Called(op, v, w, s, ok) ==
    /\ parent' = s.parent
    /\ children' = s.children
    /\ len' = s.len
    /\ rots' = s.n
    /\ status' = IF s.panic THEN "panicked" ELSE ok
    /\ last' = [op |-> op, node |-> v, other |-> w,
                repeat |-> (last.op = op /\ last.node = v /\ last.other = w)]
    /\ pre' = [parent |-> parent, children |-> children, len |-> len,
               ref |-> ref, rots |-> rots]

Update(v) ==
    /\ status = "ok"
    /\ \E s \in {update(Cur, v)} : Called("update", v, None, s, "ok")
    /\ UNCHANGED ref

Rotate(v) ==
    /\ status = "ok"
    /\ \E s \in {rotate(Cur, v)} : Called("rotate", v, None, s, "ok")
    /\ UNCHANGED ref

Splay(v) ==
    /\ status = "ok"
    /\ \E s \in {splay(Cur, v)} : Called("splay", v, None, s, "ok")
    /\ UNCHANGED ref

Expose(v) ==
    /\ status = "ok"
    /\ \E s \in {expose(Cur, v)} : Called("expose", v, None, s, "ok")
    /\ UNCHANGED ref

\* link(a, b) by a caller that respects the precondition: a is a root of
\* the reference forest and b is in another tree.  The caller records the
\* link when the call returns.
Link(a, b) ==
    /\ status = "ok"
    /\ ref[a] = None
    /\ RefRoot(ref, b) # a
    /\ \E s \in {link(Cur, a, b)} : Called("link", a, b, s, "ok")
    /\ ref' = IF status' = "ok" THEN [ref EXCEPT ![a] = b] ELSE ref

\* cut(v) on any node; a panic ends the program.  The caller records the
\* cut when the call returns.
Cut(v) ==
    /\ status = "ok"
    /\ \E s \in {cut(Cur, v)} : Called("cut", v, None, s, "ok")
    /\ ref' = IF status' = "ok" THEN [ref EXCEPT ![v] = None] ELSE ref

Next ==
    \/ \E v \in Nodes : Update(v)
    \/ \E v \in Nodes : Rotate(v)
    \/ \E v \in Nodes : Splay(v)
    \/ \E v \in Nodes : Expose(v)
    \/ \E a, b \in Nodes : Link(a, b)
    \/ \E v \in Nodes : Cut(v)

Spec == Init /\ [][Next]_vars

\* The calls of a caller that only builds a forest and exposes nodes.
NextForest ==
    \/ \E v \in Nodes : Expose(v)
    \/ \E a, b \in Nodes : Link(a, b)
    \/ \E v \in Nodes : Cut(v)

SpecForest == Init /\ [][NextForest]_vars

\* link(a, b) by a caller that has built a forest and now breaks the
\* precondition: a has a parent in the reference forest.  The reference
\* forest says nothing about what follows, so the run is followed no
\* further ("misused").
LinkNonRoot(a, b) ==
    /\ status = "ok"
    /\ ref[a] # None
    /\ \E s \in {link(Cur, a, b)} : Called("link", a, b, s, "misused")
    /\ UNCHANGED ref

NextMisuse ==
    \/ NextForest
    \/ \E a, b \in Nodes : LinkNonRoot(a, b)

SpecMisuse == Init /\ [][NextMisuse]_vars

----------------------------------------------------------------------------
\* What the claims speak of.

\* The fields before the last call, and the receiver and the argument of
\* the last call.
Pre == [parent |-> pre.parent, children |-> pre.children, len |-> pre.len]

\* The node reached from v by following parent references k times at most.
RECURSIVE Climb(_, _, _)
Climb(s, v, k) ==
    IF k = 0 \/ s.parent[v] = None THEN v ELSE Climb(s, s.parent[v], k - 1)

\* v and w are joined by a chain of parent references (heavy or light).
Connected(s, v, w) == Climb(s, v, NumNodes) = Climb(s, w, NumNodes)

\* Following parent references from v reaches w.
Reaches(s, v, w) == \E k \in 0 .. NumNodes : Climb(s, v, k) = w

\* The path of the reference forest from the root of v's tree down to v.
RECURSIVE RefPath(_, _)
RefPath(r, v) == IF r[v] = None THEN <<v>> ELSE Append(RefPath(r, r[v]), v)

\* v and the descendants of v in the reference forest.
RefSubtree(r, v) == {w \in Nodes : \E i \in 1 .. Len(RefPath(r, w)) :
                                       RefPath(r, w)[i] = v}

\* The nodes of the splay tree under v, left to right (k bounds the depth).
RECURSIVE InOrder(_, _, _)
InOrder(s, v, k) ==
    IF v = None \/ k = 0 THEN <<>>
    ELSE InOrder(s, s.children[v][0], k - 1) \o <<v>>
         \o InOrder(s, s.children[v][1], k - 1)

\* C1: after expose(v) returns, is_path_root(v) is true and v.aggregate()
\* is the number of nodes on the path from the root of v's real tree to v
\* in the reference forest.
C1_ExposeAggregate ==
    last.op = "expose" =>
        /\ status = "ok"
        /\ is_path_root(Cur, last.node)
        /\ len[last.node] = Len(RefPath(ref, last.node))

\* C2: after expose(v), v is the root of one splay tree whose nodes, read
\* left to right, are the reference path from the root of v's real tree
\* (first) to v (last).
C2_ExposePath ==
    last.op = "expose" =>
        /\ is_path_root(Cur, last.node)
        /\ InOrder(Cur, last.node, NumNodes) = RefPath(ref, last.node)

\* C3: cut(v) on a node that is not the root of its real tree returns, and
\* then two nodes are connected exactly when they were connected before and,
\* if they were in v's tree, both or neither are in v's subtree.
C3_CutSplits ==
    (last.op = "cut" /\ pre.ref[last.node] # None) =>
        /\ status = "ok"
        /\ \A x, y \in Nodes :
               Connected(Cur, x, y) <=>
                   /\ Connected(Pre, x, y)
                   /\ Connected(Pre, x, last.node) =>
                          (x \in RefSubtree(pre.ref, last.node)
                           <=> y \in RefSubtree(pre.ref, last.node))

\* C4: link(a, b) with a the root of its real tree and b in another tree
\* leaves parent(a) = b and child(b, 1) = a; every node connected to a
\* before the call reaches b by parent references; no node outside the
\* trees of a and b has its parent, children or aggregate changed.
C4_Link ==
    last.op = "link" =>
        /\ status = "ok"
        /\ parent[last.node] = last.other
        /\ children[last.other][1] = last.node
        /\ \A x \in Nodes :
               Connected(Pre, x, last.node) => Reaches(Cur, x, last.other)
        /\ \A x \in Nodes :
               (~Connected(Pre, x, last.node) /\ ~Connected(Pre, x, last.other))
                   => /\ parent[x] = pre.parent[x]
                      /\ children[x] = pre.children[x]
                      /\ len[x] = pre.len[x]

\* A link whose receiver was below another node in the structure, with one
\* more node connected to it.
C4_Witness ==
    /\ last.op = "link"
    /\ status = "ok"
    /\ pre.parent[last.node] # None
    /\ \E x \in Nodes \ {last.node} : Connected(Pre, x, last.node)

\* C5: after every step of valid link and cut calls the call has returned
\* and two nodes are connected in the structure exactly when they are in the
\* same tree of the reference forest.
C5_Connectivity ==
    (last.op = "cut" => pre.ref[last.node] # None) =>
        /\ status = "ok"
        /\ \A x, y \in Nodes :
               Connected(Cur, x, y) <=> RefPath(ref, x)[1] = RefPath(ref, y)[1]

\* C6: expose(v) right after expose(v) leaves every node's parent, children
\* and aggregate as the first call left them.
C6_ExposeIdempotent ==
    (last.op = "expose" /\ last.repeat) =>
        /\ status = "ok"
        /\ Fields(Cur) = Pre

\* A second expose(v) after a first one that rotated, on a node that was
\* linked below another.
C6_Witness ==
    /\ last.op = "expose"
    /\ last.repeat
    /\ pre.rots > 0
    /\ ref[last.node] # None

\* C7: splay(v) right after splay(v) performs no rotation and leaves every
\* node's parent, children and aggregate unchanged.
C7_SplayIdempotent ==
    (last.op = "splay" /\ last.repeat) =>
        /\ status = "ok"
        /\ rots = 0
        /\ Fields(Cur) = Pre

\* A second splay(v) after a first one that rotated v above its parent.
C7_Witness ==
    /\ last.op = "splay"
    /\ last.repeat
    /\ pre.rots > 0
    /\ \E x \in Nodes : parent[x] = last.node /\ ref[last.node] = x

\* C8: cut(v) on the root of a real tree panics and leaves every node's
\* parent, children and aggregate as they were.
C8_CutRoot ==
    (last.op = "cut" /\ pre.ref[last.node] = None) =>
        /\ status = "panicked"
        /\ Fields(Cur) = Pre

\* A cut on a root that has a node in slot 1 and is below another node in
\* the structure.
C8_Witness ==
    /\ last.op = "cut"
    /\ pre.ref[last.node] = None
    /\ pre.children[last.node][1] # None
    /\ \E x \in Nodes : pre.ref[x] = last.node

\* C9 as claimed: link(a, b) with a not the root of its real tree panics.
C9_LinkNonRootPanics ==
    (last.op = "link" /\ pre.ref[last.node] # None) => status = "panicked"

\* C9 amended: link(a, b) with a not the root of its real tree returns
\* without a panic and leaves parent(a) = b and child(b, 1) = a.
C9_LinkNonRootReturns ==
    (last.op = "link" /\ pre.ref[last.node] # None) =>
        /\ status = "misused"
        /\ parent[last.node] = last.other
        /\ children[last.other][1] = last.node

\* A link of a non-root below a node of its own tree other than itself.
C9_Witness ==
    /\ last.op = "link"
    /\ pre.ref[last.node] # None
    /\ last.other # last.node
    /\ Connected(Pre, last.node, last.other)
    /\ status = "misused"

\* C10: rotate(self) with d = dir(self) defined and P = parent(self): P's
\* slot d holds self's former child at slot 1 - d, whose parent is P;
\* self's slot 1 - d holds P; parent(P) is self; parent(self) is P's former
\* parent, and the ancestor's slot that held P holds self.
C10_Rotate ==
    (last.op = "rotate" /\ dir(Pre, last.node) # {}) =>
        LET v == last.node
            d == Slot(dir(Pre, v))
            P == pre.parent[v]
            c == pre.children[v][1 - d]
        IN /\ status = "ok"
           /\ children[P][d] = c
           /\ c # None => parent[c] = P
           /\ children[v][1 - d] = P
           /\ parent[P] = v
           /\ parent[v] = pre.parent[P]
           /\ dir(Pre, P) # {} =>
                  children[pre.parent[P]][Slot(dir(Pre, P))] = v

\* Some slot of some node holds a node: a heavy edge exists.
HeavyEdge(s) == \E p \in Nodes, d \in Slots : s.children[p][d] # None

\* C11: after every completed operation, whenever children[d] of a node P
\* holds a node C, C's parent references P.
C11_ParentChild ==
    status = "ok" =>
        \A p \in Nodes, d \in Slots :
            children[p][d] # None => parent[children[p][d]] = p

\* A link whose exposes rotated, which leaves the new heavy edge.
C11_Witness ==
    /\ last.op = "link"
    /\ status = "ok"
    /\ rots > 0
    /\ HeavyEdge(Cur)

\* The nodes below v through children slots, k levels deep at most.
RECURSIVE Below(_, _, _)
Below(s, v, k) ==
    IF k = 0 THEN {}
    ELSE LET cs == {s.children[v][d] : d \in Slots} \ {None}
         IN cs \cup UNION {Below(s, c, k - 1) : c \in cs}

\* C12: in every state reached by rotate, splay, expose, cut and valid link
\* calls no node is its own ancestor, neither through parent references nor
\* through children slots.
C12_Acyclic ==
    \A v \in Nodes :
        /\ parent[v] # None => ~Reaches(Cur, parent[v], v)
        /\ v \notin Below(Cur, v, NumNodes)

\* A chain of two parent references next to a heavy edge.
C12_Witness ==
    /\ status = "ok"
    /\ HeavyEdge(Cur)
    /\ \E v \in Nodes : parent[v] # None /\ parent[parent[v]] # None

\* C13: after any sequence of completed operations every node n satisfies
\* aggregate(n) = 1 + aggregate(child(n, 0)) + aggregate(child(n, 1)), an
\* absent child counting 0.
C13_AggregateEquation ==
    status = "ok" =>
        \A v \in Nodes :
            len[v] = 1 + ChildLen(Cur, children[v][0])
                       + ChildLen(Cur, children[v][1])

\* The root of the splay tree of v: the node reached from v over heavy
\* edges, k of them at most.
RECURSIVE HeavyTop(_, _, _)
HeavyTop(s, v, k) ==
    IF k = 0 \/ dir(s, v) = {} THEN v ELSE HeavyTop(s, s.parent[v], k - 1)

\* The nodes of the splay tree of v: those joined to v by heavy edges.
SplayTree(s, v) ==
    {HeavyTop(s, v, NumNodes)} \cup Below(s, HeavyTop(s, v, NumNodes), NumNodes)

\* C14: splay(v) changes the parent, children or aggregate only of nodes of
\* v's splay tree; on return v is a path root and parent(v) is the parent
\* the former root of that splay tree had.
C14_SplayLocal ==
    last.op = "splay" =>
        /\ status = "ok"
        /\ \A x \in Nodes \ SplayTree(Pre, last.node) :
               /\ parent[x] = pre.parent[x]
               /\ children[x] = pre.children[x]
               /\ len[x] = pre.len[x]
        /\ is_path_root(Cur, last.node)
        /\ parent[last.node] = pre.parent[HeavyTop(Pre, last.node, NumNodes)]

\* A splay that rotated while a node outside the splay tree hung off it by
\* a light edge.
C14_Witness ==
    /\ last.op = "splay"
    /\ rots > 0
    /\ \E x \in Nodes \ SplayTree(Pre, last.node) :
           pre.parent[x] \in SplayTree(Pre, last.node)

\* A splay of a path root that has a parent across a light edge.
C14_WitnessLight ==
    /\ last.op = "splay"
    /\ pre.parent[last.node] # None
    /\ is_path_root(Pre, last.node)

\* C15: splay(v) and expose(v) return without a panic after fewer rotations
\* than there are nodes, and when expose(v) returns v has no parent and no
\* right child.
C15_SplayExposeReturn ==
    last.op \in {"splay", "expose"} =>
        /\ status = "ok"
        /\ rots < NumNodes
        /\ last.op = "expose" =>
               /\ parent[last.node] = None
               /\ children[last.node][1] = None

\* An expose that rotated, on a node that had a parent and a right child.
C15_Witness ==
    /\ last.op = "expose"
    /\ rots > 0
    /\ pre.parent[last.node] # None
    /\ \E x \in Nodes : pre.children[x][1] # None /\ pre.parent[x] = None

\* An expose of a node that had a right child.
C15_WitnessChild ==
    /\ last.op = "expose"
    /\ pre.children[last.node][1] # None

\* C16: rotate(self) on a path root (no parent, or a parent that lists self
\* in neither slot) leaves every node's parent, children and aggregate
\* unchanged, and no unwrap inside rotate fails: rotate, splay, expose and
\* link never panic.
C16_RotatePathRoot ==
    /\ status = "panicked" => last.op = "cut"
    /\ (last.op = "rotate" /\ is_path_root(Pre, last.node)) =>
           /\ rots = 0
           /\ Fields(Cur) = Pre

\* A rotate of a node whose parent lists it in neither slot.
C16_Witness ==
    /\ last.op = "rotate"
    /\ pre.parent[last.node] # None
    /\ is_path_root(Pre, last.node)

\* C17: in every state reached by update, rotate, splay, expose, link and
\* cut calls, slot 0 of every node is empty.
C17_NoLeftChild == \A v \in Nodes : children[v][0] = None

\* A rotate that moved self above its parent, after which no slot holds the
\* parent.
C17_Witness ==
    /\ last.op = "rotate"
    /\ rots > 0
    /\ \E x \in Nodes : parent[x] = last.node /\ pre.parent[last.node] = x

\* C18: rotate, splay and expose (and every call but link) leave the
\* partition of the nodes into connected components as it was.
C18_ConnectivityKept ==
    last.op # "link" =>
        \A x, y \in Nodes : Connected(Cur, x, y) <=> Connected(Pre, x, y)

\* An expose that rotated in a tree of two nodes next to a third tree.
C18_Witness ==
    /\ last.op = "expose"
    /\ rots > 0
    /\ \E x, y \in Nodes :
           /\ x # last.node
           /\ Connected(Pre, x, last.node)
           /\ ~Connected(Pre, y, last.node)

TypeOK ==
    /\ parent \in [Nodes -> Nodes \cup {None}]
    /\ children \in [Nodes -> [Slots -> Nodes \cup {None}]]
    /\ len \in [Nodes -> 1 .. NumNodes]
    /\ status \in {"ok", "panicked", "misused"}
====
